---- MODULE Spec2Model ----
(***************************************************************************)
(* Sultan Wallet PWA: the wallet-side BroadcastChannel broker              *)
(* (WalletBroadcastService), the React hook that drives it                 *)
(* (useBroadcastService) and the dApp-side provider (SultanPWAProvider).   *)
(*                                                                         *)
(* The specifications of the module:                                       *)
(*   Spec          the broker and the hook, against arbitrary callers      *)
(*   ProviderSpec  the provider, against an arbitrary wallet, with timers  *)
(*   ProviderLive  ProviderSpec with time that passes and timers that run  *)
(*   PageSpec      detectSultanWallet / installPWAProvider on a dApp page  *)
(*   SessionSpec   the Session/Lock Manager, as the specification has it   *)
(* An operation of the broker or of the hook is an operator that gives the *)
(* state after the call together with the messages it posted, the wallet   *)
(* callbacks it invoked and the error it threw; a step applies one of them.*)
(***************************************************************************)
EXTENDS Naturals, Sequences, FiniteSets, TLC

(***************************************************************************)
(* Bounds of the model.                                                    *)
(***************************************************************************)
\* request ids that can be outstanding at the broker at the same time
MaxIds == 2
\* requests the provider sends in one run
MaxProviderRequests == 2

(***************************************************************************)
(* Timeouts of the provider, in milliseconds (pwa-provider.ts).            *)
(***************************************************************************)
REQUEST_TIMEOUT == 120000
DISCOVER_TIMEOUT == 2000
\* the timeout getAddress, getPublicKey and getNetwork pass to sendRequest
QUERY_TIMEOUT == 5000
\* the timeout getBalance passes
BALANCE_TIMEOUT == 10000
\* security.ts: rate limiting and session timeout
MAX_FAILED_ATTEMPTS == 5
LOCKOUT_MINUTES == 5
SESSION_TIMEOUT_MINUTES == 15

(***************************************************************************)
(* PWAMessageType (pwa-provider.ts).                                       *)
(***************************************************************************)
PING == "ping"
PONG == "pong"
CONNECT == "connect"
DISCONNECT == "disconnect"
GET_ADDRESS == "getAddress"
GET_PUBLIC_KEY == "getPublicKey"
GET_BALANCE == "getBalance"
GET_NETWORK == "getNetwork"
IS_CONNECTED == "isConnected"
SIGN_MESSAGE == "signMessage"
SIGN_TRANSACTION == "signTransaction"
SEND_TRANSACTION == "sendTransaction"
ADD_TOKEN == "addToken"
RESPONSE == "response"
ERROR == "error"

\* the types a caller can put in a request; RESPONSE stands for every type
\* that handleRequest has no case for
RequestTypes ==
  { PING, CONNECT, DISCONNECT, IS_CONNECTED, GET_ADDRESS, GET_PUBLIC_KEY,
    GET_BALANCE, GET_NETWORK, SIGN_MESSAGE, SIGN_TRANSACTION,
    SEND_TRANSACTION, ADD_TOKEN, RESPONSE }

SignTypes == { SIGN_MESSAGE, SIGN_TRANSACTION, SEND_TRANSACTION }
QueuedTypes == SignTypes \cup { ADD_TOKEN }
QueryTypes == { GET_ADDRESS, GET_PUBLIC_KEY, GET_BALANCE }

(***************************************************************************)
(* Values.                                                                 *)
(***************************************************************************)
\* message.origin: the origin of a dApp, or absent (undefined)
NoOrigin == "undefined"
UNKNOWN == "unknown"
RealOrigins == { "https://dapp.example" }
MessageOrigins == RealOrigins \cup { NoOrigin }
\* keys the registry can hold: origin || 'unknown'
RegistryOrigins == RealOrigins \cup { UNKNOWN }

\* the wallet's accounts; currentAccount is null before the wallet is ready
NoAccount == "null"
Accounts == { "account0", "account1" }
FirstAccount == "account0"

\* request ids: crypto.randomUUID() values, named id1, id2, ...
IdNames == << "id1", "id2", "id3", "id4", "id5" >>
Ids == { IdNames[i] : i \in 1..MaxIds }
NoId == "none"
EVENT_DISCONNECT == "event:disconnect"
EVENT_ACCOUNT_CHANGE == "event:accountChange"

\* rejection reasons the UI passes
DefaultReason == "User rejected"
Reasons == { DefaultReason, "Not now" }

(***************************************************************************)
(* Payloads: every payload is a record [kind, val].                        *)
(***************************************************************************)
Payload(kind, val) == [kind |-> kind, val |-> val]
NoPayload == Payload("none", "")
\* { address, publicKey } of an account
Identity(acct) == Payload("identity", acct)
\* a signature made with the key of an account
Signature(acct) == Payload("signature", acct)
\* { txHash, signature, publicKey }
SentTx(acct) == Payload("txHash+signature", acct)
\* { signature, publicKey, broadcastError }
BroadcastFailed(acct) == Payload("signature+broadcastError", acct)
Success == Payload("success", "true")
WalletReady == Payload("walletReady", "true")
Network == Payload("network", "sultan-1")
Bool(b) == Payload("boolean", IF b THEN "true" ELSE "false")
Address(acct) == Payload("address", acct)
PublicKey(acct) == Payload("publicKey", acct)
Balance(acct) == Payload("balance", acct)
ErrorText(text) == Payload("error", text)
OriginPayload(o) == Payload("origin", o)

\* a message posted on the wallet channel
Message(id, type, payload) == [id |-> id, type |-> type, payload |-> payload]

VARIABLES
  \* ---- WalletBroadcastService
  isRunning,         \* isRunning; dappChannel and walletChannel are open
  handlers,          \* the account the callbacks given to start() read
  connectedApps,     \* keys of the connectedApps map
  storage,           \* localStorage[CONNECTED_APPS_KEY]: the persisted entries
  pendingApprovals,  \* id -> PWAApprovalRequest
  balanceCalls,      \* ids of GET_BALANCE handlers awaiting the ledger RPC
  \* ---- useWallet and useBroadcastService
  isLocked,          \* useWallet().isLocked
  currentAccount,    \* useWallet().currentAccount (and wallet): NoAccount = null
  serviceRef,        \* serviceRef.current is set
  approvals,         \* id -> the hook's approveRequest awaiting wallet / RPC
  \* ---- SultanPWAProvider
  dappChannel,       \* dappChannel and walletChannel are open
  pendingRequests,   \* id -> the call whose resolve, reject and timer it holds
  timers,            \* call -> milliseconds until its setTimeout callback is due
  calls,             \* the calls made on the provider, with their promises
  _isConnected,
  _address,          \* the account of the cached address, NoAccount = null
  _publicKey,        \* the account of the cached public key
  _walletDetected,
  \* ---- the dApp page: detectSultanWallet and installPWAProvider
  windowSultan,      \* window.sultan: "none", "extension" or "pwa"
  configurable,      \* the window.sultan property can be redefined
  entry,             \* the function the page called, "none" before the call
  detected,          \* what detectSultanWallet returned: its method
  installed,         \* what installPWAProvider returned
  \* ---- the Session/Lock Manager (security.ts)
  session,           \* "Locked", "Unlocking" or "Unlocked"
  failedAttempts,    \* consecutive failed unlock attempts
  lockoutLeft,       \* minutes until lockoutUntil, 0 when it has passed
  idleLeft,          \* minutes until the inactivity timeout
  secrets,           \* the Secure Memory Container holds secrets
  pinOk,             \* the PIN being evaluated decrypts the vault
  lastResult         \* what the last unlock attempt returned

brokerVars ==
  << isRunning, handlers, connectedApps, storage, pendingApprovals, balanceCalls,
     isLocked, currentAccount, serviceRef, approvals >>
providerVars ==
  << dappChannel, pendingRequests, timers, calls, _isConnected, _address,
     _publicKey, _walletDetected >>
pageVars == << windowSultan, configurable, entry, detected, installed >>
sessionVars ==
  << session, failedAttempts, lockoutLeft, idleLeft, secrets, pinOk, lastResult >>
vars == << brokerVars, providerVars, pageVars, sessionVars >>

\* PWAApprovalRequest: type, origin, whether the payload holds the message or
\* transaction to sign, and whether 2 minutes have passed since it was queued
ApprovalRequest(type, origin, body) ==
  [type |-> type, origin |-> origin, body |-> body, overdue |-> FALSE]

Init ==
  /\ isRunning = FALSE
  /\ handlers = NoAccount
  /\ connectedApps = {}
  /\ storage = {}
  /\ pendingApprovals = << >>
  /\ balanceCalls = {}
  /\ isLocked = TRUE
  /\ currentAccount = NoAccount
  /\ serviceRef = FALSE
  /\ approvals = << >>
  /\ dappChannel = TRUE
  /\ pendingRequests = << >>
  /\ timers = << >>
  /\ calls = << >>
  /\ _isConnected = FALSE
  /\ _address = NoAccount
  /\ _publicKey = NoAccount
  /\ _walletDetected = FALSE
  /\ windowSultan = "none"
  /\ configurable = TRUE
  /\ entry = "none"
  /\ detected = "pending"
  /\ installed = "pending"
  /\ session = "Locked"
  /\ failedAttempts = 0
  /\ lockoutLeft = 0
  /\ idleLeft = 0
  /\ secrets = FALSE
  /\ pinOk = FALSE
  /\ lastResult = "none"

(***************************************************************************)
(* What one call does: the service's state after it, the messages it       *)
(* posted on the wallet channel, the wallet callbacks it invoked, whether  *)
(* it called wallet.sign*, and the error it threw to its caller.           *)
(***************************************************************************)
Same ==
  [ apps |-> connectedApps, storage |-> storage, pending |-> pendingApprovals,
    balance |-> balanceCalls, approvals |-> approvals,
    out |-> {}, callbacks |-> {}, signCalled |-> FALSE, thrown |-> "" ]

Apply(r) ==
  /\ connectedApps' = r.apps
  /\ storage' = r.storage
  /\ pendingApprovals' = r.pending
  /\ balanceCalls' = r.balance
  /\ approvals' = r.approvals

Remove(f, id) == [ x \in DOMAIN f \ { id } |-> f[x] ]

(***************************************************************************)
(* WalletBroadcastService: helpers.                                        *)
(***************************************************************************)
\* fault: the message is lost
sendResponseLost(msg) == {}

\* sendResponse: posts on the wallet channel, or nothing when it is closed
sendResponse(msg) == IF isRunning THEN { msg } ELSE {}

\* fault: a refusal is sent as a RESPONSE
sendErrorAsResponse(id, text) ==
  sendResponse(Message(id, RESPONSE, ErrorText(text)))

sendError(id, text) == sendResponse(Message(id, ERROR, ErrorText(text)))

\* fault: every origin passes for connected
isAppConnectedAlways(origin) == TRUE

isAppConnected(origin) ==
  IF origin = NoOrigin THEN FALSE ELSE origin \in connectedApps

\* origin || 'unknown'
OrUnknown(origin) == IF origin = NoOrigin THEN UNKNOWN ELSE origin

\* JSON.stringify(Array.from(connectedApps.entries())): the [key, app] pairs,
\* each app carrying its origin
saveConnectedApps(apps) == { << o, [origin |-> o] >> : o \in apps }

\* new Map(JSON.parse(stored)): the keys of the stored pairs
loadConnectedApps == { e[1] : e \in storage }

\* pendingApprovals.set(request.id, request)
queueApproval(id, request) ==
  [ x \in DOMAIN pendingApprovals \cup { id } |->
      IF x = id THEN request ELSE pendingApprovals[x] ]

(***************************************************************************)
(* WalletBroadcastService.handleRequest(message).                          *)
(* GET_ADDRESS, GET_PUBLIC_KEY and the reconnect await callbacks that      *)
(* return a captured value: they resume before any other event is handled. *)
(* GET_BALANCE awaits the ledger RPC: balanceResolved sends its response.  *)
(***************************************************************************)
\* fault: a CONNECT is granted without asking the user
handleConnectRequestAuto(id, origin) ==
  [Same EXCEPT
     !.apps = connectedApps \cup { origin },
     !.storage = saveConnectedApps(connectedApps \cup { origin }),
     !.out = sendResponse(Message(id, RESPONSE, Identity(handlers)))]

\* handleConnectRequest(id, origin, payload)
handleConnectRequest(id, origin) ==
  IF origin \in connectedApps
    THEN [Same EXCEPT
            !.storage = saveConnectedApps(connectedApps),
            !.callbacks = { "getAddress", "getPublicKey" },
            !.out = sendResponse(Message(id, RESPONSE, Identity(handlers)))]
    ELSE [Same EXCEPT
            !.pending = queueApproval(id, ApprovalRequest(CONNECT, origin, TRUE))]

\* handleDisconnect(origin)
\* fault: the record is deleted in memory only, the persisted copy keeps it
handleDisconnectMemoryOnly(origin) ==
  [Same EXCEPT !.apps = connectedApps \ { origin }]

handleDisconnect(origin) ==
  [Same EXCEPT !.apps = connectedApps \ { origin },
               !.storage = saveConnectedApps(connectedApps \ { origin })]

\* fault: the PONG does not carry the id of the PING
handlePingWithoutId(id) ==
  [Same EXCEPT !.out = sendResponse(Message(NoId, PONG, WalletReady))]

\* case PING of handleRequest
handlePing(id) ==
  [Same EXCEPT !.out = sendResponse(Message(id, PONG, WalletReady))]

\* fault: a request of an unknown type is dropped without an answer
handleUnknownTypeIgnored(id) == Same

\* default case of handleRequest
handleUnknownType(id) ==
  [Same EXCEPT !.out = sendError(id, "Unknown message type")]

handleRequest(id, type, origin, body) ==
  CASE type = PING ->
         handlePing(id)
    [] type = CONNECT ->
         handleConnectRequest(id, OrUnknown(origin))
    [] type = DISCONNECT ->
         [handleDisconnect(OrUnknown(origin)) EXCEPT
            !.out = sendResponse(Message(id, RESPONSE, Success))]
    [] type = IS_CONNECTED ->
         [Same EXCEPT !.out = sendResponse(Message(id, RESPONSE,
                          Bool(origin # NoOrigin /\ origin \in connectedApps)))]
    [] type = GET_ADDRESS ->
         IF ~isAppConnected(origin)
           THEN [Same EXCEPT !.out = sendError(id, "Not connected")]
           ELSE [Same EXCEPT !.callbacks = { "getAddress" },
                   !.out = sendResponse(Message(id, RESPONSE, Address(handlers)))]
    [] type = GET_PUBLIC_KEY ->
         IF ~isAppConnected(origin)
           THEN [Same EXCEPT !.out = sendError(id, "Not connected")]
           ELSE [Same EXCEPT !.callbacks = { "getPublicKey" },
                   !.out = sendResponse(Message(id, RESPONSE, PublicKey(handlers)))]
    [] type = GET_BALANCE ->
         IF ~isAppConnected(origin)
           THEN [Same EXCEPT !.out = sendError(id, "Not connected")]
           ELSE [Same EXCEPT !.callbacks = { "getBalance" },
                             !.balance = balanceCalls \cup { id }]
    [] type = GET_NETWORK ->
         [Same EXCEPT !.out = sendResponse(Message(id, RESPONSE, Network))]
    [] type \in SignTypes ->
         IF ~isAppConnected(origin)
           THEN [Same EXCEPT
                   !.out = sendError(id, "Not connected. Call connect() first.")]
           ELSE [Same EXCEPT !.pending =
                   queueApproval(id, ApprovalRequest(type, OrUnknown(origin), body))]
    [] type = ADD_TOKEN ->
         IF ~isAppConnected(origin)
           THEN [Same EXCEPT !.out = sendError(id, "Not connected")]
           ELSE [Same EXCEPT !.pending =
                   queueApproval(id, ApprovalRequest(ADD_TOKEN, OrUnknown(origin), body))]
    [] OTHER ->
         handleUnknownType(id)

\* the getBalance callback returns (it returns zeros on an RPC failure)
\* fault: the balance is released only after an approval is queued for it
balanceResolvedQueues(id) ==
  [Same EXCEPT !.balance = balanceCalls \ { id },
               !.pending = queueApproval(id, ApprovalRequest(GET_BALANCE, UNKNOWN, TRUE))]

balanceResolved(id) ==
  [Same EXCEPT !.balance = balanceCalls \ { id },
               !.out = sendResponse(Message(id, RESPONSE, Balance(handlers)))]

(***************************************************************************)
(* WalletBroadcastService: the operations the wallet UI calls.             *)
(***************************************************************************)
\* fault: an approved CONNECT is not recorded
approvedAppsNone(request, result) == connectedApps

\* the registry after approveRequest(requestId, result) found `request`
approvedApps(request, result) ==
  IF request.type = CONNECT /\ result.kind = "identity"
    THEN connectedApps \cup { request.origin }
    ELSE connectedApps

\* fault: the answer is sent without looking the request up
approveRequestUnchecked(requestId, result) ==
  [Same EXCEPT
     !.out = sendResponse(Message(requestId, RESPONSE, result)),
     !.pending = Remove(pendingApprovals, requestId)]

approveRequest(requestId, result) ==
  IF requestId \notin DOMAIN pendingApprovals
    THEN Same
    ELSE LET request == pendingApprovals[requestId]
             apps == approvedApps(request, result) IN
         [Same EXCEPT
            !.apps = apps,
            !.storage = IF request.type = CONNECT /\ result.kind = "identity"
                          THEN saveConnectedApps(apps) ELSE storage,
            !.out = sendResponse(Message(requestId, RESPONSE, result)),
            !.pending = Remove(pendingApprovals, requestId)]

\* fault: the request is dropped without an answer
rejectRequestSilently(requestId, reason) ==
  [Same EXCEPT !.pending = Remove(pendingApprovals, requestId)]

rejectRequest(requestId, reason) ==
  IF requestId \notin DOMAIN pendingApprovals
    THEN Same
    ELSE [Same EXCEPT !.out = sendError(requestId, reason),
                      !.pending = Remove(pendingApprovals, requestId)]

\* the event disconnectApp and disconnectAll post for an origin
disconnectEvent(origin) ==
  IF isRunning
    THEN { Message(EVENT_DISCONNECT, RESPONSE, OriginPayload(origin)) }
    ELSE {}

disconnectApp(origin) ==
  [Same EXCEPT !.apps = connectedApps \ { origin },
               !.storage = saveConnectedApps(connectedApps \ { origin }),
               !.out = disconnectEvent(origin)]

\* fault: the registry is cleared in memory only
disconnectAllMemoryOnly ==
  [Same EXCEPT !.apps = {},
               !.out = UNION { disconnectEvent(o) : o \in connectedApps }]

disconnectAll ==
  [Same EXCEPT !.apps = {},
               !.storage = saveConnectedApps({}),
               !.out = UNION { disconnectEvent(o) : o \in connectedApps }]

\* notifyAccountChange(address, publicKey), given whether the channel is open
notifyAccountChange(running, account) ==
  IF running
    THEN { Message(EVENT_ACCOUNT_CHANGE, RESPONSE, Identity(account)) }
    ELSE {}


(***************************************************************************)
(* useWallet: the session the hook reads (isLocked, wallet, currentAccount).*)
(***************************************************************************)
\* wallet.signMessage / wallet.signTransaction with the vault locked: the key
\* material is unavailable and the call fails
signingFails == isLocked

(***************************************************************************)
(* useBroadcastService: approveRequest and rejectRequest.                  *)
(***************************************************************************)
Approval(type, account, stage) ==
  [type |-> type, account |-> account, stage |-> stage]

NothingToSign(type) ==
  CASE type = SIGN_MESSAGE -> "No message to sign"
    [] type = SIGN_TRANSACTION -> "No transaction to sign"
    [] OTHER -> "No transaction to send"

\* the call runs to its first await, or to its end when there is none
hookApproveRequest(id) ==
  CASE ~serviceRef \/ currentAccount = NoAccount ->
         [Same EXCEPT !.thrown = "Wallet not ready"]
    [] serviceRef /\ currentAccount # NoAccount
         /\ id \notin DOMAIN pendingApprovals ->
         [Same EXCEPT !.thrown = "Request not found"]
    [] OTHER ->
         LET request == pendingApprovals[id] IN
         CASE request.type = CONNECT ->
                approveRequest(id, Identity(currentAccount))
           [] request.type = ADD_TOKEN ->
                approveRequest(id, Success)
           [] request.type \in SignTypes /\ ~request.body ->
                [Same EXCEPT !.thrown = NothingToSign(request.type)]
           [] request.type \in SignTypes /\ request.body /\ signingFails ->
                [Same EXCEPT !.signCalled = TRUE, !.thrown = "SigningFailed"]
           [] request.type \in SignTypes /\ request.body /\ ~signingFails ->
                [Same EXCEPT !.signCalled = TRUE,
                   !.approvals =
                      (id :> Approval(request.type, currentAccount, "signing"))
                        @@ approvals]
           [] OTHER ->
                [Same EXCEPT !.thrown = "Unsupported request type"]

\* the await of wallet.sign* returns (ok) or throws
signResolved(id, ok) ==
  LET a == approvals[id] IN
  IF ~ok
    THEN [Same EXCEPT !.approvals = Remove(approvals, id),
                      !.thrown = "SigningFailed"]
    ELSE IF a.type = SEND_TRANSACTION
      THEN [Same EXCEPT !.approvals = [approvals EXCEPT ![id].stage = "broadcasting"]]
      ELSE [approveRequest(id, Signature(a.account)) EXCEPT
              !.approvals = Remove(approvals, id)]

\* fault: a failed broadcast is answered as a rejection, without the signature
broadcastResolvedDropsSignature(id, ok) ==
  [(IF ok THEN approveRequest(id, SentTx(approvals[id].account))
          ELSE rejectRequest(id, "Broadcast failed"))
     EXCEPT !.approvals = Remove(approvals, id)]

\* the await of broadcastTransaction returns (ok) or throws
broadcastResolved(id, ok) ==
  LET a == approvals[id] IN
  [approveRequest(id, IF ok THEN SentTx(a.account) ELSE BroadcastFailed(a.account))
     EXCEPT !.approvals = Remove(approvals, id)]

\* fault: rejecting a request signs it first
hookRejectRequestSigns(id, reason) ==
  IF ~serviceRef
    THEN Same
    ELSE [rejectRequest(id, reason) EXCEPT
            !.signCalled = id \in DOMAIN pendingApprovals]

hookRejectRequest(id, reason) ==
  IF ~serviceRef THEN Same ELSE rejectRequest(id, reason)

hookDisconnectApp(origin) ==
  IF ~serviceRef THEN Same ELSE disconnectApp(origin)

hookDisconnectAll ==
  IF ~serviceRef THEN Same ELSE disconnectAll

(***************************************************************************)
(* The steps.                                                              *)
(***************************************************************************)
\* ids of requests the broker or the hook still holds
OutstandingIds == DOMAIN pendingApprovals \cup balanceCalls \cup DOMAIN approvals

\* crypto.randomUUID() of the caller: an id no outstanding request has
FreshId ==
  IdNames[CHOOSE i \in 1..MaxIds :
            /\ IdNames[i] \notin OutstandingIds
            /\ \A j \in 1..(i - 1) : IdNames[j] \in OutstandingIds]

walletVars == << isLocked, currentAccount, serviceRef >>
serviceVars == << isRunning, handlers >>

\* the dApp channel delivers a message to the running service
Receive(type, origin, body) ==
  /\ isRunning
  /\ Ids \ OutstandingIds # {}
  /\ Apply(handleRequest(FreshId, type, origin, body))
  /\ UNCHANGED << serviceVars, walletVars, providerVars, pageVars, sessionVars >>

\* a caller sends a request under the id of a request that waits in the
\* queue for the user (the id is the caller's: handleRequest takes it from
\* the message)
ReceiveReused(id, type, origin, body) ==
  /\ isRunning
  /\ id \in DOMAIN pendingApprovals \ DOMAIN approvals
  /\ Apply(handleRequest(id, type, origin, body))
  /\ UNCHANGED << serviceVars, walletVars, providerVars, pageVars, sessionVars >>

BalanceResolves(id) ==
  /\ id \in balanceCalls
  /\ Apply(balanceResolved(id))
  /\ UNCHANGED << serviceVars, walletVars, providerVars, pageVars, sessionVars >>

\* the user presses Approve on a request that no approval is working on
Approve(id) ==
  /\ id \notin DOMAIN approvals
  /\ Apply(hookApproveRequest(id))
  /\ UNCHANGED << serviceVars, walletVars, providerVars, pageVars, sessionVars >>

SignResolves(id, ok) ==
  /\ id \in DOMAIN approvals
  /\ approvals[id].stage = "signing"
  /\ Apply(signResolved(id, ok))
  /\ UNCHANGED << serviceVars, walletVars, providerVars, pageVars, sessionVars >>

BroadcastResolves(id, ok) ==
  /\ id \in DOMAIN approvals
  /\ approvals[id].stage = "broadcasting"
  /\ Apply(broadcastResolved(id, ok))
  /\ UNCHANGED << serviceVars, walletVars, providerVars, pageVars, sessionVars >>

Reject(id, reason) ==
  /\ Apply(hookRejectRequest(id, reason))
  /\ UNCHANGED << serviceVars, walletVars, providerVars, pageVars, sessionVars >>

DisconnectApp(origin) ==
  /\ Apply(hookDisconnectApp(origin))
  /\ UNCHANGED << serviceVars, walletVars, providerVars, pageVars, sessionVars >>

DisconnectAll ==
  /\ Apply(hookDisconnectAll)
  /\ UNCHANGED << serviceVars, walletVars, providerVars, pageVars, sessionVars >>

\* start(handlers): a no-op when the service already runs. stop() has no
\* caller in the application: the service runs until the page goes away
start(account) ==
  IF isRunning
    THEN UNCHANGED << isRunning, handlers >>
    ELSE /\ handlers' = account
         /\ isRunning' = TRUE

\* fault: the effect stops the service when the wallet is locked
useEffectStartStopsWhenLocked(locked, account) ==
  IF locked
    THEN /\ serviceRef' = FALSE
         /\ isRunning' = FALSE
         /\ UNCHANGED handlers
    ELSE IF account = NoAccount
      THEN UNCHANGED << serviceRef, isRunning, handlers >>
      ELSE /\ serviceRef' = TRUE
           /\ start(account)

\* useBroadcastService, first effect: with the wallet ready, take the
\* singleton and start it
useEffectStart(locked, account) ==
  IF locked \/ account = NoAccount
    THEN UNCHANGED << serviceRef, isRunning, handlers >>
    ELSE /\ serviceRef' = TRUE
         /\ start(account)

\* second effect, run when currentAccount?.address changed: it reads
\* serviceRef.current after the first effect has run
useEffectNotify(ref, running, account) ==
  IF ref /\ account # NoAccount /\ account # currentAccount
    THEN notifyAccountChange(running, account)
    ELSE {}

\* the vault is unlocked: the session shows the account it showed before, or
\* the wallet's first account
Unlock ==
  /\ isLocked
  /\ isLocked' = FALSE
  /\ currentAccount' =
       IF currentAccount = NoAccount THEN FirstAccount ELSE currentAccount
  /\ useEffectStart(FALSE, currentAccount')
  /\ UNCHANGED << connectedApps, storage, pendingApprovals, balanceCalls,
                  approvals, providerVars, pageVars, sessionVars >>

\* keep: the hook still sees the wallet and account objects while locked
Lock(keep) ==
  /\ ~isLocked
  /\ isLocked' = TRUE
  /\ currentAccount' = IF keep THEN currentAccount ELSE NoAccount
  /\ useEffectStart(TRUE, currentAccount')
  /\ UNCHANGED << connectedApps, storage, pendingApprovals, balanceCalls,
                  approvals, providerVars, pageVars, sessionVars >>

SwitchAccount(account) ==
  /\ ~isLocked
  /\ account # currentAccount
  /\ currentAccount' = account
  /\ useEffectStart(FALSE, account)
  /\ UNCHANGED << isLocked, connectedApps, storage, pendingApprovals,
                  balanceCalls, approvals, providerVars, pageVars, sessionVars >>

\* the wallet page is loaded again: a new service instance is constructed
\* and the hook mounts with the wallet locked
Reload ==
  /\ connectedApps' = loadConnectedApps
  /\ pendingApprovals' = << >>
  /\ balanceCalls' = {}
  /\ approvals' = << >>
  /\ isRunning' = FALSE
  /\ handlers' = NoAccount
  /\ isLocked' = TRUE
  /\ currentAccount' = NoAccount
  /\ serviceRef' = FALSE
  /\ UNCHANGED << storage, providerVars, pageVars, sessionVars >>

\* 2 minutes pass: every request now queued has waited longer than that
ApprovalWindowElapses ==
  /\ \E id \in DOMAIN pendingApprovals : ~pendingApprovals[id].overdue
  /\ pendingApprovals' =
       [ id \in DOMAIN pendingApprovals |->
           [pendingApprovals[id] EXCEPT !.overdue = TRUE] ]
  /\ UNCHANGED << serviceVars, connectedApps, storage, balanceCalls, approvals,
                  walletVars, providerVars, pageVars, sessionVars >>

Next ==
  \/ \E origin \in MessageOrigins : Receive(PING, origin, TRUE)
  \/ \E origin \in MessageOrigins : Receive(CONNECT, origin, TRUE)
  \/ \E origin \in MessageOrigins : Receive(DISCONNECT, origin, TRUE)
  \/ \E origin \in MessageOrigins : Receive(IS_CONNECTED, origin, TRUE)
  \/ \E origin \in MessageOrigins : Receive(GET_ADDRESS, origin, TRUE)
  \/ \E origin \in MessageOrigins : Receive(GET_PUBLIC_KEY, origin, TRUE)
  \/ \E origin \in MessageOrigins : Receive(GET_BALANCE, origin, TRUE)
  \/ \E origin \in MessageOrigins : Receive(GET_NETWORK, origin, TRUE)
  \/ \E origin \in MessageOrigins, body \in BOOLEAN :
       Receive(SIGN_MESSAGE, origin, body)
  \/ \E origin \in MessageOrigins : Receive(SIGN_TRANSACTION, origin, TRUE)
  \/ \E origin \in MessageOrigins : Receive(SEND_TRANSACTION, origin, TRUE)
  \/ \E origin \in MessageOrigins : Receive(ADD_TOKEN, origin, TRUE)
  \/ \E origin \in MessageOrigins : Receive(RESPONSE, origin, TRUE)
  \/ \E id \in Ids, type \in { CONNECT } \cup QueuedTypes,
        origin \in MessageOrigins :
       ReceiveReused(id, type, origin, TRUE)
  \/ \E id \in Ids : BalanceResolves(id)
  \/ \E id \in Ids : Approve(id)
  \/ \E id \in Ids, ok \in BOOLEAN : SignResolves(id, ok)
  \/ \E id \in Ids, ok \in BOOLEAN : BroadcastResolves(id, ok)
  \/ \E id \in Ids, reason \in Reasons : Reject(id, reason)
  \/ \E origin \in RegistryOrigins : DisconnectApp(origin)
  \/ DisconnectAll
  \/ Unlock
  \/ \E keep \in BOOLEAN : Lock(keep)
  \/ \E account \in Accounts : SwitchAccount(account)
  \/ Reload
  \/ ApprovalWindowElapses

Spec == Init /\ [][Next]_vars


(***************************************************************************)
(* What the operations enabled in a state would do.                        *)
(***************************************************************************)
FreshIds == Ids \ OutstandingIds

\* every request the service can receive now
RequestResults ==
  IF isRunning
    THEN { handleRequest(id, type, origin, body) :
             id \in FreshIds, type \in RequestTypes,
             origin \in MessageOrigins, body \in BOOLEAN }
    ELSE {}

\* every other step that is not part of an approval
OtherResults ==
  { balanceResolved(id) : id \in balanceCalls }
    \cup { hookRejectRequest(id, reason) : id \in Ids, reason \in Reasons }
    \cup { hookDisconnectApp(origin) : origin \in RegistryOrigins }
    \cup { hookDisconnectAll }
    \cup { [Same EXCEPT !.out = notifyAccountChange(isRunning, account)] :
             account \in Accounts }

NonApprovalResults == RequestResults \cup OtherResults

\* the steps of the approval of id that can run now
ApprovalResults(id) ==
  IF id \notin DOMAIN approvals
    THEN { hookApproveRequest(id) }
    ELSE IF approvals[id].stage = "signing"
      THEN { signResolved(id, ok) : ok \in BOOLEAN }
      ELSE { broadcastResolved(id, ok) : ok \in BOOLEAN }

Connected(origin) == origin # NoOrigin /\ origin \in connectedApps
PendingOfType(types) ==
  { id \in DOMAIN pendingApprovals : pendingApprovals[id].type \in types }
\* pending requests no approval is working on
Undecided == DOMAIN pendingApprovals \ DOMAIN approvals

C2_QueriesNeedConnection ==
  isRunning =>
    \A id \in FreshIds, type \in QueryTypes, origin \in MessageOrigins :
      ~Connected(origin) =>
        LET r == handleRequest(id, type, origin, TRUE) IN
        /\ r.out = { Message(id, ERROR, ErrorText("Not connected")) }
        /\ r.callbacks = {}
        /\ ~r.signCalled
        /\ r.balance = balanceCalls
        /\ r.approvals = approvals
        /\ r.pending = pendingApprovals

\* the service runs and an origin that was connected (a sign request of it
\* is still queued) has no record any more
C2_Witness ==
  /\ isRunning
  /\ FreshIds # {}
  /\ \E id \in PendingOfType(SignTypes) :
       ~Connected(pendingApprovals[id].origin)

(***************************************************************************)
(* C3: a pending ApprovalRequest without a decision for 2 minutes is       *)
(* removed from the queue (Expired) and can no longer be approved: no      *)
(* approval starts a signing call for a request that waited undecided for  *)
(* more than 2 minutes.                                                    *)
(***************************************************************************)
C3_PendingExpires ==
  [][ \A id \in Undecided :
        pendingApprovals[id].overdue => id \notin DOMAIN approvals' ]_vars

(***************************************************************************)
(* C5: approving a pending request while the wallet is locked fails: no    *)
(* signing call is made and nothing is sent to the caller.                 *)
(***************************************************************************)
C5_LockedApprovalFails ==
  isLocked =>
    \A id \in Undecided :
      LET r == hookApproveRequest(id) IN
      /\ r.thrown # ""
      /\ ~r.signCalled
      /\ r.out = {}
      /\ r.pending = pendingApprovals


(***************************************************************************)
(* C6: a step adds an origin to the registry, or to its persisted copy,    *)
(* only by approving a pending CONNECT request of that origin (the step    *)
(* takes the request off the queue); a record that appears without one was *)
(* persisted before and is loaded by a new service. Requests, rejections   *)
(* and disconnects add nothing.                                            *)
(***************************************************************************)
ConnectApproved(origin) ==
  \E id \in PendingOfType({ CONNECT }) :
    /\ pendingApprovals[id].origin = origin
    /\ id \notin DOMAIN pendingApprovals'
    /\ serviceRef /\ currentAccount # NoAccount

C6_RecordsOnlyByApproval ==
  /\ [][ /\ \A origin \in connectedApps' \ connectedApps :
              ConnectApproved(origin) \/ origin \in loadConnectedApps
         /\ \A e \in storage' \ storage : ConnectApproved(e[1]) ]_vars
  /\ [](\A r \in NonApprovalResults :
          r.apps \subseteq connectedApps /\ r.storage \subseteq storage)

\* an approved origin is in the registry and in the persisted copy
C6_Witness ==
  \E origin \in RealOrigins :
    origin \in connectedApps /\ origin \in loadConnectedApps

(***************************************************************************)
(* C7: a CONNECT from an origin that has a record is answered with the     *)
(* current address and public key; nothing is queued and the registry is   *)
(* unchanged.                                                              *)
(***************************************************************************)
C7_ReconnectReturnsCurrent ==
  isRunning /\ currentAccount # NoAccount =>
    \A id \in FreshIds, origin \in MessageOrigins :
      OrUnknown(origin) \in connectedApps =>
        LET r == handleRequest(id, CONNECT, origin, TRUE) IN
        /\ r.out = { Message(id, RESPONSE, Identity(currentAccount)) }
        /\ r.pending = pendingApprovals
        /\ r.apps = connectedApps

(***************************************************************************)
(* C8: approving a pending CONNECT creates the record of its origin, in    *)
(* the registry and persisted, sends the caller a RESPONSE with the        *)
(* identity and ends the request; and whatever step sends a RESPONSE with  *)
(* an identity under the id of a pending CONNECT leaves the record of its  *)
(* origin in the registry.                                                 *)
(***************************************************************************)
C8_ApprovedConnectIsRecorded ==
  /\ serviceRef /\ currentAccount # NoAccount =>
       \A id \in PendingOfType({ CONNECT }) \cap Undecided :
         LET r == hookApproveRequest(id)
             origin == pendingApprovals[id].origin IN
         /\ origin \in r.apps
         /\ << origin, [origin |-> origin] >> \in r.storage
         /\ r.out = { Message(id, RESPONSE, Identity(currentAccount)) }
         /\ id \notin DOMAIN r.pending
         /\ r.thrown = ""
  /\ \A id \in Ids : \A r \in NonApprovalResults \cup ApprovalResults(id) :
       \A m \in r.out :
         /\ m.type = RESPONSE
         /\ m.payload.kind = "identity"
         /\ m.id \in PendingOfType({ CONNECT })
         => pendingApprovals[m.id].origin \in r.apps

\* a CONNECT waits for the user and the wallet is ready to approve it
C8_Witness ==
  \E id \in PendingOfType({ CONNECT }) \cap Undecided :
    /\ serviceRef /\ currentAccount # NoAccount /\ ~isLocked
    /\ pendingApprovals[id].origin \notin connectedApps
    /\ pendingApprovals[id].origin \in hookApproveRequest(id).apps

(***************************************************************************)
(* C9: rejecting a pending CONNECT sends the caller an ERROR with the      *)
(* reason, ends the request and leaves the registry and its persisted copy *)
(* as they were.                                                           *)
(***************************************************************************)
C9_RejectedConnectAddsNothing ==
  serviceRef =>
    \A id \in PendingOfType({ CONNECT }), reason \in Reasons :
      LET r == hookRejectRequest(id, reason) IN
      /\ r.out = { Message(id, ERROR, ErrorText(reason)) }
      /\ r.apps = connectedApps
      /\ r.storage = storage
      /\ id \notin DOMAIN r.pending

\* a CONNECT of an origin without a record waits while another origin is
\* connected
C9_Witness ==
  \E id \in PendingOfType({ CONNECT }) :
    /\ serviceRef
    /\ pendingApprovals[id].origin \notin connectedApps
    /\ connectedApps # {}
    /\ hookRejectRequest(id, DefaultReason).out # {}

(***************************************************************************)
(* C10: for a pending request of any type, approveRequest(id, result)      *)
(* posts the RESPONSE with that id and that result and removes the         *)
(* request; rejectRequest(id, reason) posts the ERROR with that id and     *)
(* reason and removes the request.                                         *)
(***************************************************************************)
Results ==
  { Identity(a) : a \in Accounts } \cup { Signature(a) : a \in Accounts }
    \cup { SentTx(a) : a \in Accounts }
    \cup { BroadcastFailed(a) : a \in Accounts } \cup { Success }

C10_DecisionReachesCaller ==
  \A id \in DOMAIN pendingApprovals :
    /\ \A result \in Results :
         LET r == approveRequest(id, result) IN
         /\ r.out = { Message(id, RESPONSE, result) }
         /\ r.pending = Remove(pendingApprovals, id)
    /\ \A reason \in Reasons :
         LET r == rejectRequest(id, reason) IN
         /\ r.out = { Message(id, ERROR, ErrorText(reason)) }
         /\ r.pending = Remove(pendingApprovals, id)

\* requests of two types wait, one of them being signed
C10_Witness ==
  /\ PendingOfType({ ADD_TOKEN }) # {}
  /\ PendingOfType(SignTypes) \cap DOMAIN approvals # {}
  /\ \A id \in DOMAIN pendingApprovals :
       approveRequest(id, Success).out # {} /\ rejectRequest(id, DefaultReason).out # {}


(***************************************************************************)
(* SultanPWAProvider (pwa-provider.ts), against a wallet that may answer   *)
(* anything or nothing. A call is one sendRequest or discover with its     *)
(* promise; time is kept as the milliseconds each timer still has to run.  *)
(***************************************************************************)
DISCOVER == "discover"

\* the provider methods that go through sendRequest
SendApis ==
  { "connect", "disconnect", "getAddress", "getPublicKey", "getBalance",
    "getNetwork", "signMessage", "signTransaction", "sendTransaction",
    "addToken" }
\* the methods the dApp of the model calls
ApisCalled == { "connect", "disconnect", "getAddress", "getBalance", "signMessage" }

TypeOf(api) ==
  CASE api = "connect" -> CONNECT
    [] api = "disconnect" -> DISCONNECT
    [] api = "getAddress" -> GET_ADDRESS
    [] api = "getPublicKey" -> GET_PUBLIC_KEY
    [] api = "getBalance" -> GET_BALANCE
    [] api = "getNetwork" -> GET_NETWORK
    [] api = "signMessage" -> SIGN_MESSAGE
    [] api = "signTransaction" -> SIGN_TRANSACTION
    [] api = "sendTransaction" -> SEND_TRANSACTION
    [] api = "addToken" -> ADD_TOKEN
    [] OTHER -> PING

\* the timeout argument of the method's sendRequest (or of discover)
TimeoutOf(api) ==
  CASE api \in { "getAddress", "getPublicKey", "getNetwork" } -> QUERY_TIMEOUT
    [] api = "getBalance" -> BALANCE_TIMEOUT
    [] api = DISCOVER -> DISCOVER_TIMEOUT
    [] OTHER -> REQUEST_TIMEOUT

Call(api, id, state, val) ==
  [api |-> api, id |-> id, state |-> state, val |-> val]

\* result.address, result.publicKey of a payload (undefined reads as null)
AddressOf(payload) ==
  IF payload.kind \in { "identity", "address" } THEN payload.val ELSE NoAccount
PublicKeyOf(payload) ==
  IF payload.kind \in { "identity", "publicKey" } THEN payload.val ELSE NoAccount

\* fault: a response settles every pending promise, whatever its id
settleAll(cs, c, state, val) ==
  [ d \in DOMAIN cs |->
      IF cs[d].state = "pending"
        THEN [cs[d] EXCEPT !.state = state, !.val = val]
        ELSE cs[d] ]

\* a promise settles once: resolve and reject of a settled promise do nothing
settle(cs, c, state, val) ==
  IF cs[c].state = "pending"
    THEN [cs EXCEPT ![c].state = state, ![c].val = val]
    ELSE cs

\* fault: the timer callback leaves the promise alone
timedOutSilently(cs, c) == cs

\* reject(new Error(`Request timed out (${type})`)); discover resolves false
timedOut(cs, c) ==
  IF cs[c].api = DISCOVER
    THEN settle(cs, c, "resolved", Bool(FALSE))
    ELSE settle(cs, c, "rejected", ErrorText("Request timed out"))

\* reject(new Error('Provider destroyed')); discover's reject resolves false
destroyed(cs, c) ==
  IF cs[c].api = DISCOVER
    THEN settle(cs, c, "resolved", Bool(FALSE))
    ELSE settle(cs, c, "rejected", ErrorText("Provider destroyed"))

\* fault: connect() goes on after a rejected sendRequest
ContinueAfterRejection(api, state, val) ==
  CASE api = "connect" ->
         /\ _isConnected' = TRUE
         /\ _address' = AddressOf(val)
         /\ _publicKey' = PublicKeyOf(val)
    [] api = "disconnect" ->
         /\ _isConnected' = FALSE
         /\ _address' = NoAccount
         /\ _publicKey' = NoAccount
    [] OTHER -> UNCHANGED << _isConnected, _address, _publicKey >>

\* what connect() and disconnect() do once their sendRequest has settled;
\* with no payload, connect() stops at result.address, behind the flag
Continue(api, state, val) ==
  CASE api = "connect" /\ state = "resolved" /\ val = NoPayload ->
         /\ _isConnected' = TRUE
         /\ UNCHANGED << _address, _publicKey >>
    [] api = "connect" /\ state = "resolved" /\ val # NoPayload ->
         /\ _isConnected' = TRUE
         /\ _address' = AddressOf(val)
         /\ _publicKey' = PublicKeyOf(val)
    [] api = "disconnect" ->
         /\ _isConnected' = FALSE
         /\ _address' = NoAccount
         /\ _publicKey' = NoAccount
    [] OTHER -> UNCHANGED << _isConnected, _address, _publicKey >>

\* a provider method is called: sendRequest(type, payload, timeout)
Request(api) ==
  /\ Len(calls) < MaxProviderRequests
  /\ LET c == Len(calls) + 1
         id == IdNames[c] IN
     IF api = "getAddress" /\ _address # NoAccount
       THEN /\ calls' = Append(calls, Call(api, NoId, "resolved", Address(_address)))
            /\ UNCHANGED << pendingRequests, timers, _isConnected, _address,
                            _publicKey >>
       ELSE IF api = "getPublicKey" /\ _publicKey # NoAccount
         THEN /\ calls' = Append(calls,
                            Call(api, NoId, "resolved", PublicKey(_publicKey)))
              /\ UNCHANGED << pendingRequests, timers, _isConnected, _address,
                              _publicKey >>
         ELSE IF ~dappChannel
           THEN /\ calls' = Append(calls, Call(api, NoId, "rejected",
                                 ErrorText("BroadcastChannel not available")))
                /\ Continue(api, "rejected", NoPayload)
                /\ UNCHANGED << pendingRequests, timers >>
           ELSE /\ calls' = Append(calls, Call(api, id, "pending", NoPayload))
                /\ pendingRequests' = (id :> c) @@ pendingRequests
                /\ timers' = (c :> TimeoutOf(api)) @@ timers
                /\ UNCHANGED << _isConnected, _address, _publicKey >>
  /\ UNCHANGED << dappChannel, _walletDetected, brokerVars, pageVars, sessionVars >>

\* discover(): a PING under the id 'discover'
discoverCall ==
  LET c == Len(calls) + 1 IN
  IF ~dappChannel
    THEN /\ calls' = Append(calls, Call(DISCOVER, NoId, "resolved", Bool(FALSE)))
         /\ UNCHANGED << pendingRequests, timers >>
    ELSE /\ calls' = Append(calls, Call(DISCOVER, DISCOVER, "pending", NoPayload))
         /\ pendingRequests' = (DISCOVER :> c) @@ pendingRequests
         /\ timers' = (c :> DISCOVER_TIMEOUT) @@ timers

\* the dApp calls discover()
Discover ==
  /\ Len(calls) < MaxProviderRequests
  /\ discoverCall
  /\ UNCHANGED << dappChannel, _isConnected, _address, _publicKey,
                  _walletDetected, brokerVars, pageVars, sessionVars >>

\* handleWalletEvent(response)
handleWalletEvent(msg) ==
  /\ CASE msg.id = EVENT_ACCOUNT_CHANGE ->
            /\ _address' = AddressOf(msg.payload)
            /\ _publicKey' = PublicKeyOf(msg.payload)
            /\ UNCHANGED _isConnected
       [] msg.id = EVENT_DISCONNECT ->
            /\ _isConnected' = FALSE
            /\ _address' = NoAccount
            /\ _publicKey' = NoAccount
       [] OTHER -> UNCHANGED << _isConnected, _address, _publicKey >>
  /\ UNCHANGED << pendingRequests, timers, calls, _walletDetected >>

IsEvent(id) == id \in { EVENT_ACCOUNT_CHANGE, EVENT_DISCONNECT }

\* walletChannel.onmessage: handleResponse(response)
handleResponse(msg) ==
  /\ dappChannel
  /\ CASE msg.type = ERROR /\ msg.id = NoId ->
            UNCHANGED << pendingRequests, timers, calls, _isConnected, _address,
                         _publicKey, _walletDetected >>
       [] ~(msg.type = ERROR /\ msg.id = NoId) /\ IsEvent(msg.id) ->
            handleWalletEvent(msg)
       [] ~(msg.type = ERROR /\ msg.id = NoId) /\ ~IsEvent(msg.id)
            /\ msg.type = PONG ->
            /\ _walletDetected' = TRUE
            /\ IF DISCOVER \in DOMAIN pendingRequests
                 THEN LET c == pendingRequests[DISCOVER] IN
                      /\ timers' = Remove(timers, c)
                      /\ calls' = settle(calls, c, "resolved", Bool(TRUE))
                      /\ pendingRequests' = Remove(pendingRequests, DISCOVER)
                 ELSE UNCHANGED << pendingRequests, timers, calls >>
            /\ UNCHANGED << _isConnected, _address, _publicKey >>
       [] OTHER ->
            IF msg.id \notin DOMAIN pendingRequests
              THEN UNCHANGED << pendingRequests, timers, calls, _isConnected,
                                _address, _publicKey, _walletDetected >>
              ELSE LET c == pendingRequests[msg.id]
                       \* the reject of a discover entry is resolve(false)
                       state == IF msg.type = ERROR /\ calls[c].api # DISCOVER
                                  THEN "rejected" ELSE "resolved"
                       val == IF msg.type = ERROR /\ calls[c].api = DISCOVER
                                THEN Bool(FALSE)
                                ELSE IF msg.type = ERROR /\ msg.payload = NoPayload
                                  THEN ErrorText("Request failed")
                                  ELSE msg.payload IN
                   /\ timers' = Remove(timers, c)
                   /\ pendingRequests' = Remove(pendingRequests, msg.id)
                   /\ calls' = settle(calls, c, state, val)
                   /\ IF calls[c].state = "pending"
                        THEN Continue(calls[c].api, state, val)
                        ELSE UNCHANGED << _isConnected, _address, _publicKey >>
                   /\ UNCHANGED _walletDetected
  /\ UNCHANGED << dappChannel, brokerVars, pageVars, sessionVars >>

\* the setTimeout callback of call c runs
TimerFires(c) ==
  /\ c \in DOMAIN timers
  /\ timers[c] = 0
  /\ timers' = Remove(timers, c)
  /\ pendingRequests' = Remove(pendingRequests, calls[c].id)
  /\ calls' = timedOut(calls, c)
  /\ IF calls[c].state = "pending" /\ calls'[c].state # "pending"
       THEN Continue(calls[c].api, calls'[c].state, calls'[c].val)
       ELSE UNCHANGED << _isConnected, _address, _publicKey >>
  /\ UNCHANGED << dappChannel, _walletDetected, brokerVars, pageVars, sessionVars >>

\* time passes until the next timer is due; a due timer runs first
Tick ==
  /\ DOMAIN timers # {}
  /\ \A c \in DOMAIN timers : timers[c] > 0
  /\ LET d == CHOOSE x \in { timers[c] : c \in DOMAIN timers } :
                \A c \in DOMAIN timers : x <= timers[c] IN
     timers' = [ c \in DOMAIN timers |-> timers[c] - d ]
  /\ UNCHANGED << dappChannel, pendingRequests, calls, _isConnected, _address,
                  _publicKey, _walletDetected, brokerVars, pageVars, sessionVars >>

\* destroy()
destroyCall ==
  /\ LET held == { pendingRequests[id] : id \in DOMAIN pendingRequests } IN
     /\ timers' = [ c \in DOMAIN timers \ held |-> timers[c] ]
     /\ calls' = [ c \in DOMAIN calls |->
                     IF c \in held THEN destroyed(calls, c)[c] ELSE calls[c] ]
     /\ IF \E c \in held : calls[c].api = "disconnect" /\ calls[c].state = "pending"
          THEN Continue("disconnect", "rejected", NoPayload)
          ELSE UNCHANGED << _isConnected, _address, _publicKey >>
  /\ pendingRequests' = << >>
  /\ dappChannel' = FALSE

\* the dApp calls destroy()
destroy ==
  /\ destroyCall
  /\ UNCHANGED << _walletDetected, brokerVars, pageVars, sessionVars >>

\* what the wallet channel can carry to the provider
WalletPayloads ==
  { Identity("account1"), NoPayload }
WalletIds ==
  { IdNames[i] : i \in 1..MaxProviderRequests }
    \cup { DISCOVER, EVENT_ACCOUNT_CHANGE, EVENT_DISCONNECT, NoId }
\* the origins of the other pages the wallet can disconnect
OtherOrigins == { "https://other.example" }

ProviderNext ==
  \/ \E api \in ApisCalled : Request(api)
  \/ Discover
  \/ \E id \in WalletIds, type \in { RESPONSE, ERROR, PONG },
        payload \in WalletPayloads :
       handleResponse(Message(id, type, payload))
  \/ \E origin \in OtherOrigins :
       handleResponse(Message(EVENT_DISCONNECT, RESPONSE, OriginPayload(origin)))
  \/ \E c \in 1..MaxProviderRequests : TimerFires(c)
  \/ Tick
  \/ destroy

ProviderSpec == Init /\ [][ProviderNext]_vars

\* time passes and a due timer callback runs
ProviderLive ==
  /\ ProviderSpec
  /\ WF_vars(Tick)
  /\ WF_vars(\E c \in 1..MaxProviderRequests : TimerFires(c))


(***************************************************************************)
(* C4: a request sent with sendRequest is settled no later than its        *)
(* timeout: while its promise is pending its timer runs, with no more than *)
(* the timeout of its method left, and holds its entry in pendingRequests; *)
(* when the timer callback runs the promise is rejected with the timeout   *)
(* error and the entry is removed; so every pending request gets settled,  *)
(* whatever the wallet does.                                               *)
(***************************************************************************)
Pending(c) ==
  c \in DOMAIN calls /\ calls[c].api \in SendApis /\ calls[c].state = "pending"

C4_SettledByTimeout ==
  /\ [](\A c \in 1..MaxProviderRequests :
          LET api == calls[c].api
              allowed ==
                IF api \in { "getAddress", "getPublicKey", "getNetwork" } THEN 5000
                ELSE IF api = "getBalance" THEN 10000
                ELSE 120000 IN
          Pending(c) =>
            /\ c \in DOMAIN timers
            /\ timers[c] <= allowed
            /\ calls[c].id \in DOMAIN pendingRequests
            /\ pendingRequests[calls[c].id] = c)
  /\ [][ \A c \in 1..MaxProviderRequests :
           Pending(c) /\ TimerFires(c) =>
             /\ calls'[c].state = "rejected"
             /\ calls'[c].val = ErrorText("Request timed out")
             /\ calls[c].id \notin DOMAIN pendingRequests' ]_vars
  /\ \A c \in 1..MaxProviderRequests : Pending(c) ~> ~Pending(c)

\* a query and a connect were both rejected by their timers
C4_Witness ==
  /\ dappChannel
  /\ \E c \in DOMAIN calls :
       /\ calls[c].api = "connect"
       /\ calls[c].state = "rejected"
       /\ calls[c].val = ErrorText("Request timed out")
       /\ calls[c].id \notin DOMAIN pendingRequests
  /\ \E c \in DOMAIN calls :
       /\ calls[c].api \in { "getAddress", "getBalance" }
       /\ calls[c].state = "rejected"
       /\ calls[c].val = ErrorText("Request timed out")


(***************************************************************************)
(* C11: when the approval of a SEND_TRANSACTION has its signature and the  *)
(* broadcast call fails, the caller is sent a RESPONSE (not an ERROR) with *)
(* the signature and the broadcastError, and the request leaves the queue. *)
(***************************************************************************)
Broadcasting ==
  { id \in DOMAIN approvals \cap DOMAIN pendingApprovals :
      approvals[id].stage = "broadcasting" }

Signing ==
  { id \in DOMAIN approvals : approvals[id].stage = "signing" }

C12_SigningSerialized ==
  /\ \A id1 \in Signing, id2 \in Signing :
       id1 # id2 => approvals[id1].account # approvals[id2].account
  /\ \A id1 \in Signing, id2 \in Undecided :
       approvals[id1].account = currentAccount
         => ~hookApproveRequest(id2).signCalled


(***************************************************************************)
(* C13: when a step of the approval of a pending request fails (nothing to *)
(* sign, the signing call throws, unsupported type), the caller is sent an *)
(* ERROR with the id of the request and the request leaves the queue.      *)
(***************************************************************************)
ApprovalFailures ==
  { NothingToSign(type) : type \in SignTypes }
    \cup { "SigningFailed", "Unsupported request type" }

C13_FailureReachesCaller ==
  \A id \in DOMAIN pendingApprovals : \A r \in ApprovalResults(id) :
    r.thrown \in ApprovalFailures =>
      /\ \E m \in r.out : m.id = id /\ m.type = ERROR
      /\ id \notin DOMAIN r.pending


(***************************************************************************)
(* C14: while an ApprovalRequest is pending, no incoming request is queued *)
(* under its id: in every step, a request that stays in the queue keeps    *)
(* its type, its origin and its body.                                      *)
(***************************************************************************)
C14_PendingIdNotReused ==
  [][ \A id \in DOMAIN pendingApprovals \cap DOMAIN pendingApprovals' :
        /\ pendingApprovals'[id].type = pendingApprovals[id].type
        /\ pendingApprovals'[id].origin = pendingApprovals[id].origin
        /\ pendingApprovals'[id].body = pendingApprovals[id].body ]_vars


(***************************************************************************)
(* C15: IS_CONNECTED from an origin without a record is answered with an   *)
(* ERROR, as GET_ADDRESS from that origin is, and with nothing else.       *)
(***************************************************************************)
C15_IsConnectedNeedsConnection ==
  isRunning =>
    \A id \in FreshIds, origin \in MessageOrigins :
      ~Connected(origin) =>
        LET r == handleRequest(id, IS_CONNECTED, origin, TRUE) IN
        /\ \E m \in r.out : m.id = id /\ m.type = ERROR
        /\ \A m \in r.out : m.type = ERROR
        /\ r.out = handleRequest(id, GET_ADDRESS, origin, TRUE).out


C17_DisconnectRequestSendsEvent ==
  isRunning =>
    \A id \in FreshIds, origin \in MessageOrigins :
      LET r == handleRequest(id, DISCONNECT, origin, TRUE) IN
      /\ \E m \in r.out : m.id = id /\ m.type = RESPONSE
      /\ \E m \in r.out : m.id = EVENT_DISCONNECT


(***************************************************************************)
(* C18: every PING the service receives, from any origin, connected or     *)
(* not, locked or not, is answered with exactly one PONG that carries the  *)
(* id of the PING; handling it changes neither the registry, nor its       *)
(* persisted copy, nor the queue of pending approvals.                     *)
(***************************************************************************)
C18_PingAlwaysAnswered ==
  isRunning =>
    \A id \in FreshIds, origin \in MessageOrigins :
      LET r == handleRequest(id, PING, origin, TRUE) IN
      /\ r.out = { Message(id, PONG, WalletReady) }
      /\ r.apps = connectedApps
      /\ r.storage = storage
      /\ r.pending = pendingApprovals
      /\ r.approvals = approvals
      /\ r.thrown = ""

\* the service can take a PING while the wallet is locked, no origin has a
\* record and a CONNECT waits for the user
C18_Witness ==
  /\ isRunning
  /\ FreshIds # {}
  /\ isLocked
  /\ connectedApps = {}
  /\ PendingOfType({ CONNECT }) # {}


(***************************************************************************)
(* C19: discover() never rejects. It resolves true when a PONG arrives     *)
(* while its timeout has not elapsed, and false when its timer callback    *)
(* runs with no PONG before, when there is no BroadcastChannel, and when   *)
(* the provider is destroyed while it holds the 'discover' entry.          *)
(***************************************************************************)
Discovering(c) ==
  c \in DOMAIN calls /\ calls[c].api = DISCOVER /\ calls[c].state = "pending"

C19_DiscoverResolves ==
  /\ [](\A c \in DOMAIN calls :
          calls[c].api = DISCOVER => calls[c].state # "rejected")
  /\ [][ \A c \in 1..MaxProviderRequests :
           /\ Discovering(c) /\ c \in DOMAIN timers /\ timers[c] > 0
                /\ (\E payload \in WalletPayloads :
                      handleResponse(Message(DISCOVER, PONG, payload)))
                => calls'[c].state = "resolved" /\ calls'[c].val = Bool(TRUE)
           /\ Discovering(c) /\ TimerFires(c)
                => calls'[c].state = "resolved" /\ calls'[c].val = Bool(FALSE)
           /\ Discovering(c) /\ DISCOVER \in DOMAIN pendingRequests
                /\ pendingRequests[DISCOVER] = c /\ destroy
                => calls'[c].state = "resolved" /\ calls'[c].val = Bool(FALSE)
           /\ ~dappChannel /\ Discover /\ c = Len(calls')
                => calls'[c].state = "resolved" /\ calls'[c].val = Bool(FALSE)
       ]_vars


(***************************************************************************)
(* C20: a response is matched to a request by its id alone. A RESPONSE or  *)
(* ERROR whose id is that of an outstanding request settles that request   *)
(* (resolved with the payload, or rejected with the error text, 'Request   *)
(* failed' when there is none), removes its entry and its timer, and       *)
(* leaves every other request as it was; a RESPONSE or ERROR whose id      *)
(* (not an event id) is that of no outstanding request changes nothing in  *)
(* the provider.                                                           *)
(***************************************************************************)
RequestIds == { IdNames[i] : i \in 1..MaxProviderRequests }

C20_CorrelatedById ==
  [][ \A id \in RequestIds \cup { NoId }, type \in { RESPONSE, ERROR },
         payload \in WalletPayloads :
        handleResponse(Message(id, type, payload)) =>
          IF id \in DOMAIN pendingRequests
            THEN LET c == pendingRequests[id] IN
                 /\ calls[c].id = id
                 /\ calls[c].state = "pending"
                 /\ calls'[c].state =
                      IF type = ERROR THEN "rejected" ELSE "resolved"
                 /\ calls'[c].val =
                      IF type = ERROR /\ payload = NoPayload
                        THEN ErrorText("Request failed") ELSE payload
                 /\ \A d \in DOMAIN calls \ { c } : calls'[d] = calls[d]
                 /\ DOMAIN pendingRequests' = DOMAIN pendingRequests \ { id }
                 /\ \A x \in DOMAIN pendingRequests' :
                      pendingRequests'[x] = pendingRequests[x]
                 /\ DOMAIN timers' = DOMAIN timers \ { c }
            ELSE UNCHANGED providerVars ]_vars

\* of two requests, the second was answered and the first still waits
C20_Witness ==
  \E c \in DOMAIN calls, d \in DOMAIN calls :
    /\ c < d
    /\ Pending(c)
    /\ calls[c].id \in DOMAIN pendingRequests
    /\ calls[d].api \in SendApis
    /\ calls[d].state = "resolved"
    /\ calls[d].val = Identity("account1")


C22_LockKeepsPending ==
  /\ [][ \A keep \in BOOLEAN :
           Lock(keep) =>
             /\ pendingApprovals' = pendingApprovals
             /\ approvals' = approvals
             /\ connectedApps' = connectedApps
             /\ isRunning' = isRunning
             /\ serviceRef' = serviceRef ]_vars
  /\ [](~isLocked =>
          \A keep \in BOOLEAN :
            useEffectNotify(serviceRef, isRunning,
                            IF keep THEN currentAccount ELSE NoAccount) = {})

\* the wallet was locked while the signing call of a pending request was
\* under way, and the request is still in the queue
C22_Witness ==
  /\ isLocked
  /\ isRunning
  /\ \E id \in DOMAIN approvals \cap DOMAIN pendingApprovals :
       approvals[id].stage = "signing"


(***************************************************************************)
(* C23: a request whose type is not a request type of the protocol (a      *)
(* response or event type sent as a request, or an unknown value) is       *)
(* answered with one ERROR under its id, and handling it changes neither   *)
(* the registry, nor its persisted copy, nor the queue.                    *)
(***************************************************************************)
UnknownTypes ==
  { RESPONSE, ERROR, PONG, EVENT_ACCOUNT_CHANGE, EVENT_DISCONNECT, "bogus" }

C23_UnknownTypeRefused ==
  isRunning =>
    \A id \in FreshIds, type \in UnknownTypes, origin \in MessageOrigins,
       body \in BOOLEAN :
      LET r == handleRequest(id, type, origin, body) IN
      /\ r.out = { Message(id, ERROR, ErrorText("Unknown message type")) }
      /\ r.apps = connectedApps
      /\ r.storage = storage
      /\ r.pending = pendingApprovals
      /\ r.balance = balanceCalls
      /\ r.callbacks = {}

\* the service can take a request while an origin has a record and a
\* request of it waits in the queue
C23_Witness ==
  /\ isRunning
  /\ FreshIds # {}
  /\ \E id \in DOMAIN pendingApprovals :
       pendingApprovals[id].origin \in connectedApps


(***************************************************************************)
(* The dApp page: detectSultanWallet() and installPWAProvider(). The page  *)
(* calls one of them once; the provider of this section is the one         *)
(* detectSultanWallet constructs for its probe. The awaits of already      *)
(* settled promises resume before any other event; the await of discover() *)
(* is where the wallet's answer, the timer and an extension's content      *)
(* script can run.                                                         *)
(***************************************************************************)
\* window.sultan?.isSultan: the extension's provider and SultanPWAProvider
\* both carry isSultan = true
isSultan == windowSultan # "none"

\* if (detected): discover() resolves with whatever settled its promise
Truthy(val) == val \notin { Bool(FALSE), NoPayload }

\* Object.defineProperty(window, 'sultan', { value: provider, writable:
\* false, configurable: false }): throws on a property that exists and is
\* not configurable
defineProperty ==
  IF windowSultan = "none" \/ configurable
    THEN /\ windowSultan' = "pwa"
         /\ configurable' = FALSE
         /\ installed' = "true"
    ELSE /\ installed' = "false"
         /\ UNCHANGED << windowSultan, configurable >>

\* detectSultanWallet() called by the page; bc: BroadcastChannel is defined
detectSultanWallet(bc) ==
  /\ entry = "none"
  /\ entry' = "detect"
  /\ IF isSultan
       THEN /\ detected' = "extension"
            /\ UNCHANGED << pendingRequests, timers, calls >>
       ELSE IF ~bc
         THEN /\ detected' = "none"
              /\ UNCHANGED << pendingRequests, timers, calls >>
         ELSE /\ detected' = "pending"
              /\ discoverCall
  /\ UNCHANGED << windowSultan, configurable, installed, dappChannel,
                  _isConnected, _address, _publicKey, _walletDetected,
                  brokerVars, sessionVars >>

\* installPWAProvider() called by the page, up to the await of discover()
installPWAProvider(bc) ==
  /\ entry = "none"
  /\ entry' = "install"
  /\ IF isSultan
       THEN /\ installed' = "false"
            /\ UNCHANGED << detected, pendingRequests, timers, calls >>
       ELSE IF ~bc
         THEN /\ detected' = "none"
              /\ installed' = "false"
              /\ UNCHANGED << pendingRequests, timers, calls >>
         ELSE /\ detected' = "pending"
              /\ installed' = "pending"
              /\ discoverCall
  /\ UNCHANGED << windowSultan, configurable, dappChannel, _isConnected,
                  _address, _publicKey, _walletDetected, brokerVars, sessionVars >>

\* the probe's discover() has settled: detectSultanWallet returns, and
\* installPWAProvider goes on with what it returned
discoverReturns ==
  /\ entry # "none"
  /\ detected = "pending"
  /\ calls # << >>
  /\ calls[1].state = "resolved"
  /\ IF Truthy(calls[1].val)
       THEN /\ detected' = "pwa"
            /\ IF entry = "install"
                 THEN defineProperty
                 ELSE UNCHANGED << windowSultan, configurable, installed >>
            /\ UNCHANGED << dappChannel, pendingRequests, timers, calls,
                            _isConnected, _address, _publicKey >>
       ELSE /\ detected' = "none"
            /\ destroyCall
            /\ installed' = IF entry = "install" THEN "false" ELSE installed
            /\ UNCHANGED << windowSultan, configurable >>
  /\ UNCHANGED << entry, _walletDetected, brokerVars, sessionVars >>

\* the extension's content script sets window.sultan; canRedefine: it left
\* the property configurable
extensionInjects(canRedefine) ==
  /\ windowSultan = "none"
  /\ windowSultan' = "extension"
  /\ configurable' = canRedefine
  /\ UNCHANGED << entry, detected, installed, brokerVars, providerVars, sessionVars >>

PageNext ==
  \/ \E bc \in BOOLEAN : detectSultanWallet(bc)
  \/ \E bc \in BOOLEAN : installPWAProvider(bc)
  \/ discoverReturns
  \/ \E canRedefine \in BOOLEAN : extensionInjects(canRedefine)
  \/ \E id \in WalletIds, type \in { RESPONSE, ERROR, PONG },
        payload \in WalletPayloads :
       handleResponse(Message(id, type, payload))
  \/ \E c \in 1..MaxProviderRequests : TimerFires(c)
  \/ Tick

PageSpec == Init /\ [][PageNext]_vars

(***************************************************************************)
(* C24: the extension has priority over the PWA provider. Called with      *)
(* window.sultan.isSultan present, detectSultanWallet returns method       *)
(* 'extension' and installPWAProvider returns false; window.sultan is      *)
(* never redefined from the extension's provider to the PWA provider, also *)
(* when the extension appears during the discovery; and when nothing is    *)
(* detected the result is 'none' and the probing provider is destroyed.    *)
(***************************************************************************)
C24_ExtensionHasPriority ==
  /\ [][ windowSultan = "extension" => windowSultan' = "extension" ]_vars
  /\ [][ \A bc \in BOOLEAN :
           /\ isSultan /\ detectSultanWallet(bc) => detected' = "extension"
           /\ isSultan /\ installPWAProvider(bc) => installed' = "false" ]_vars
  /\ [](detected = "none" /\ calls # << >> =>
          ~dappChannel /\ pendingRequests = << >>)
  /\ [](detected = "none" => installed # "true" /\ windowSultan # "pwa")


(***************************************************************************)
(* The Session/Lock Manager. Time is counted in minutes left until         *)
(* lockoutUntil and until the inactivity timeout.                          *)
(***************************************************************************)
otherVars == << brokerVars, providerVars, pageVars >>

\* fault: an attempt inside the lockout window is evaluated like any other
unlockAttemptIgnoresLockout(correct) ==
  /\ session = "Locked"
  /\ session' = "Unlocking"
  /\ pinOk' = correct
  /\ UNCHANGED << failedAttempts, lockoutLeft, idleLeft, secrets, lastResult,
                  otherVars >>

\* unlock(pin): inside the lockout window the attempt is rejected with
\* LockedOut and the PIN is not evaluated; otherwise the vault decryption
\* starts
unlockAttempt(correct) ==
  /\ session = "Locked"
  /\ IF lockoutLeft > 0
       THEN /\ lastResult' = "LockedOut"
            /\ UNCHANGED << session, pinOk >>
       ELSE /\ session' = "Unlocking"
            /\ pinOk' = correct
            /\ UNCHANGED lastResult
  /\ UNCHANGED << failedAttempts, lockoutLeft, idleLeft, secrets, otherVars >>

\* fault: the session is unlocked whatever the decryption returned
decryptDoneAlwaysUnlocks ==
  /\ session = "Unlocking"
  /\ session' = "Unlocked"
  /\ failedAttempts' = 0
  /\ idleLeft' = SESSION_TIMEOUT_MINUTES
  /\ secrets' = TRUE
  /\ lastResult' = "Unlocked"
  /\ UNCHANGED << lockoutLeft, pinOk, otherVars >>

\* the vault decryption returns: success unlocks, resets the counter and
\* starts the inactivity timer; failure locks, wipes and counts, and the
\* fifth consecutive failure sets the lockout
decryptDone ==
  /\ session = "Unlocking"
  /\ IF pinOk
       THEN /\ session' = "Unlocked"
            /\ failedAttempts' = 0
            /\ idleLeft' = SESSION_TIMEOUT_MINUTES
            /\ secrets' = TRUE
            /\ lastResult' = "Unlocked"
            /\ UNCHANGED lockoutLeft
       ELSE /\ session' = "Locked"
            /\ failedAttempts' =
                 IF failedAttempts < MAX_FAILED_ATTEMPTS
                   THEN failedAttempts + 1 ELSE failedAttempts
            /\ lockoutLeft' =
                 IF failedAttempts' >= MAX_FAILED_ATTEMPTS
                   THEN LOCKOUT_MINUTES ELSE lockoutLeft
            /\ secrets' = FALSE
            /\ lastResult' = "DecryptionFailed"
            /\ UNCHANGED idleLeft
  /\ UNCHANGED << pinOk, otherVars >>

\* an authorized operation restarts the inactivity timer
authorizedOperation ==
  /\ session = "Unlocked"
  /\ idleLeft' = SESSION_TIMEOUT_MINUTES
  /\ UNCHANGED << session, failedAttempts, lockoutLeft, secrets, pinOk,
                  lastResult, otherVars >>

\* the user locks the wallet: the secrets are wiped
lock ==
  /\ session = "Unlocked"
  /\ session' = "Locked"
  /\ secrets' = FALSE
  /\ UNCHANGED << failedAttempts, lockoutLeft, idleLeft, pinOk, lastResult,
                  otherVars >>

\* the inactivity timer runs out
sessionTimeout ==
  /\ session = "Unlocked"
  /\ idleLeft = 0
  /\ session' = "Locked"
  /\ secrets' = FALSE
  /\ UNCHANGED << failedAttempts, lockoutLeft, idleLeft, pinOk, lastResult,
                  otherVars >>

\* a minute passes; a due inactivity timeout runs first
minutePasses ==
  /\ lockoutLeft > 0 \/ (session = "Unlocked" /\ idleLeft > 0)
  /\ ~(session = "Unlocked" /\ idleLeft = 0)
  /\ lockoutLeft' = IF lockoutLeft > 0 THEN lockoutLeft - 1 ELSE 0
  /\ idleLeft' = IF session = "Unlocked" THEN idleLeft - 1 ELSE idleLeft
  /\ UNCHANGED << session, failedAttempts, secrets, pinOk, lastResult,
                  otherVars >>

SessionNext ==
  \/ \E correct \in BOOLEAN : unlockAttempt(correct)
  \/ decryptDone
  \/ authorizedOperation
  \/ lock
  \/ sessionTimeout
  \/ minutePasses

SessionSpec == Init /\ [][SessionNext]_vars


(***************************************************************************)
(* C25: the fifth consecutive failed unlock attempt sets the lockout to 5  *)
(* minutes; inside the window the session stays Locked and every attempt,  *)
(* with the correct PIN too, is rejected with LockedOut without evaluating *)
(* the PIN; once the window has elapsed an attempt is evaluated, and a     *)
(* correct PIN unlocks and resets the counter of failed attempts to 0.     *)
(***************************************************************************)
C25_LockoutAfterFiveFailures ==
  /\ [][ failedAttempts < 5 /\ failedAttempts' = 5 => lockoutLeft' = 5 ]_vars
  /\ [][ lockoutLeft = 0 /\ lockoutLeft' > 0 => failedAttempts' = 5 ]_vars
  /\ [](lockoutLeft > 0 => session = "Locked" /\ ~secrets)
  /\ [][ \A correct \in BOOLEAN :
           session = "Locked" /\ unlockAttempt(correct) =>
             IF lockoutLeft > 0
               THEN /\ session' = "Locked"
                    /\ lastResult' = "LockedOut"
                    /\ pinOk' = pinOk
                    /\ failedAttempts' = failedAttempts
                    /\ lockoutLeft' = lockoutLeft
               ELSE session' = "Unlocking" /\ pinOk' = correct ]_vars
  /\ [][ session = "Unlocking" /\ pinOk /\ decryptDone =>
           session' = "Unlocked" /\ failedAttempts' = 0 ]_vars

\* five attempts failed, a sixth was rejected inside the window, and the
\* window has not elapsed yet
C25_Witness ==
  /\ session = "Locked"
  /\ failedAttempts = 5
  /\ lockoutLeft > 0
  /\ lockoutLeft < 5
  /\ lastResult = "LockedOut"


(***************************************************************************)
(* C26: the session goes Locked -> Unlocking -> Unlocked -> Locked. It     *)
(* becomes Unlocked only from Unlocking with a PIN that decrypts the       *)
(* vault; it leaves Unlocked only to Locked, with the secrets wiped, by an *)
(* explicit lock or when 15 minutes have passed since the last authorized  *)
(* operation, each of which restarts the 15 minutes; and secrets are held  *)
(* in no state other than Unlocked.                                        *)
(***************************************************************************)
C26_SessionLifecycle ==
  /\ [](secrets <=> session = "Unlocked")
  /\ [](session = "Unlocked" => idleLeft \in 0..15)
  /\ [][ /\ session = "Locked" /\ session' # "Locked"
              => session' = "Unlocking"
         /\ session # "Unlocked" /\ session' = "Unlocked"
              => session = "Unlocking" /\ pinOk /\ idleLeft' = 15
         /\ session = "Unlocking" /\ session' # "Unlocking"
              => session' = IF pinOk THEN "Unlocked" ELSE "Locked"
         /\ session = "Unlocked" /\ session' # "Unlocked"
              => session' = "Locked" /\ ~secrets'
         /\ sessionTimeout => idleLeft = 0 /\ session' = "Locked" /\ ~secrets'
         /\ lock => session' = "Locked" /\ ~secrets'
         /\ authorizedOperation => idleLeft' = 15 /\ session' = "Unlocked"
         /\ session = "Unlocked" /\ session' = "Unlocked" /\ idleLeft' > idleLeft
              => idleLeft' = 15 ]_vars

\* a session that was unlocked is Locked again with the 15 minutes used up
C26_Witness ==
  /\ session = "Locked"
  /\ lastResult = "Unlocked"
  /\ idleLeft = 0
  /\ ~secrets


(***************************************************************************)
(* C27: wallet.signMessage / wallet.signTransaction is called only by the  *)
(* approval of a request that is in the queue at that moment and whose     *)
(* type is SIGN_MESSAGE, SIGN_TRANSACTION or SEND_TRANSACTION. Receiving a *)
(* request, answering a query, rejecting, disconnecting, the later steps   *)
(* of an approval, and approving CONNECT or ADD_TOKEN call no signing.     *)
(***************************************************************************)
C27_SigningOnlyByApproval ==
  /\ \A r \in NonApprovalResults : ~r.signCalled
  /\ \A id \in Ids :
       /\ id \in DOMAIN approvals =>
            \A r \in ApprovalResults(id) : ~r.signCalled
       /\ hookApproveRequest(id).signCalled =>
            /\ id \in DOMAIN pendingApprovals
            /\ pendingApprovals[id].type \in SignTypes
  /\ \A id \in DOMAIN approvals : approvals[id].type \in SignTypes

\* the signing call of a pending sign request is under way while a CONNECT
\* waits in the queue
C27_Witness ==
  /\ \E id \in Signing :
       /\ id \in DOMAIN pendingApprovals
       /\ pendingApprovals[id].type \in SignTypes
  /\ PendingOfType({ CONNECT }) # {}


(***************************************************************************)
(* C28: at most one CONNECT per origin is pending: a CONNECT of an origin  *)
(* that already has a pending CONNECT adds no second ApprovalRequest for   *)
(* that origin.                                                            *)
(***************************************************************************)
C28_OnePendingConnectPerOrigin ==
  \A id1 \in PendingOfType({ CONNECT }), id2 \in PendingOfType({ CONNECT }) :
    pendingApprovals[id1].origin = pendingApprovals[id2].origin => id1 = id2


(***************************************************************************)
(* C29: handling GET_ADDRESS, GET_PUBLIC_KEY, GET_BALANCE, GET_NETWORK or  *)
(* IS_CONNECTED, from any origin and whether it ends in a RESPONSE or in   *)
(* an ERROR, queues no ApprovalRequest and leaves the registry, its        *)
(* persisted copy and the queue as they were; the same holds when the      *)
(* balance call of a GET_BALANCE returns.                                  *)
(***************************************************************************)
ReadTypes == QueryTypes \cup { GET_NETWORK, IS_CONNECTED }

C29_QueriesChangeNothing ==
  /\ isRunning =>
       \A id \in FreshIds, type \in ReadTypes, origin \in MessageOrigins :
         LET r == handleRequest(id, type, origin, TRUE) IN
         /\ r.pending = pendingApprovals
         /\ r.apps = connectedApps
         /\ r.storage = storage
         /\ r.approvals = approvals
         /\ \A m \in r.out : m.id = id /\ m.type \in { RESPONSE, ERROR }
  /\ \A id \in balanceCalls :
       LET r == balanceResolved(id) IN
       /\ r.pending = pendingApprovals
       /\ r.apps = connectedApps
       /\ r.storage = storage

\* a balance call of a connected origin is under way while a request waits
\* in the queue
C29_Witness ==
  /\ isRunning
  /\ balanceCalls # {}
  /\ connectedApps # {}
  /\ pendingApprovals # << >>


(***************************************************************************)
(* C30: a signature is released only to an origin that has a record when   *)
(* the request is approved: no approval of a pending sign request whose    *)
(* origin has no record starts a signing call, and no step sends a         *)
(* RESPONSE with a signature under the id of such a request.               *)
(***************************************************************************)
C30_SignatureNeedsRecord ==
  /\ \A id \in PendingOfType(SignTypes) \cap Undecided :
       hookApproveRequest(id).signCalled =>
         pendingApprovals[id].origin \in connectedApps
  /\ \A id \in PendingOfType(SignTypes) : \A r \in ApprovalResults(id) :
       \A m \in r.out :
         m.type = RESPONSE /\ m.payload.kind \in
             { "signature", "txHash+signature", "signature+broadcastError" }
           => pendingApprovals[id].origin \in connectedApps


(***************************************************************************)
(* C31: a caller at an origin without a record gets the wallet's address   *)
(* or public key in no message of the broker: not in the answer to a       *)
(* request of that origin, and not in an event, which the wallet channel   *)
(* delivers to every page that listens, posted while that origin has no    *)
(* record.                                                                 *)
(***************************************************************************)
CarriesIdentity(m) ==
  m.payload.kind \in { "identity", "address", "publicKey" }

C31_IdentityOnlyToConnected ==
  /\ isRunning =>
       \A id \in FreshIds, type \in RequestTypes, origin \in MessageOrigins,
          body \in BOOLEAN :
         OrUnknown(origin) \notin connectedApps =>
           \A m \in handleRequest(id, type, origin, body).out :
             ~CarriesIdentity(m)
  /\ RegistryOrigins \ connectedApps # {} =>
       \A account \in Accounts :
         \A m \in useEffectNotify(serviceRef, isRunning, account) :
           ~CarriesIdentity(m)


(***************************************************************************)
(* C32: with the wallet on an account, the answers to GET_ADDRESS,         *)
(* GET_PUBLIC_KEY and GET_BALANCE of a connected origin, and the identity  *)
(* a CONNECT of a connected origin returns, are those of the current       *)
(* account, the one the account-change event announced and a newly         *)
(* approved CONNECT returns.                                               *)
(***************************************************************************)
C32_AnswersFollowAccount ==
  isRunning /\ serviceRef /\ currentAccount # NoAccount =>
    /\ \A id \in FreshIds, origin \in RealOrigins :
         Connected(origin) =>
           /\ handleRequest(id, GET_ADDRESS, origin, TRUE).out
                = { Message(id, RESPONSE, Address(currentAccount)) }
           /\ handleRequest(id, GET_PUBLIC_KEY, origin, TRUE).out
                = { Message(id, RESPONSE, PublicKey(currentAccount)) }
           /\ handleRequest(id, CONNECT, origin, TRUE).out
                = { Message(id, RESPONSE, Identity(currentAccount)) }
    /\ \A id \in balanceCalls :
         balanceResolved(id).out
           = { Message(id, RESPONSE, Balance(currentAccount)) }


(***************************************************************************)
(* C33: the disconnect event the wallet posts for disconnectApp(o) ends    *)
(* the connection of origin o only: a connected provider of a page at      *)
(* another origin that receives it keeps _isConnected and its cached       *)
(* address and public key.                                                 *)
(***************************************************************************)
C33_DisconnectOnlyThatOrigin ==
  [][ \A origin \in OtherOrigins :
        ( /\ _isConnected
          /\ handleResponse(Message(EVENT_DISCONNECT, RESPONSE,
                                    OriginPayload(origin))) )
          => UNCHANGED << _isConnected, _address, _publicKey >> ]_vars


(***************************************************************************)
(* C34: while two discover() calls of one provider are both pending, a     *)
(* PONG that arrives before the timeout of a call resolves that call true, *)
(* and the timer callback of one call leaves the 'discover' entry of the   *)
(* other in pendingRequests.                                               *)
(***************************************************************************)
C34_OverlappingDiscover ==
  [][ \A c, d \in 1..MaxProviderRequests :
        c # d /\ Discovering(c) /\ Discovering(d) =>
          /\ ( /\ c \in DOMAIN timers /\ timers[c] > 0
               /\ \E payload \in WalletPayloads :
                    handleResponse(Message(DISCOVER, PONG, payload)) )
               => calls'[c].state = "resolved" /\ calls'[c].val = Bool(TRUE)
          /\ TimerFires(d) => DISCOVER \in DOMAIN pendingRequests'
    ]_vars


(***************************************************************************)
(* C35: a call is settled at most once: a settled call never changes       *)
(* again, whatever response or timer comes later; and pendingRequests      *)
(* holds exactly the ids of the calls sent and not yet settled.            *)
(***************************************************************************)
Unsettled == { c \in DOMAIN calls : calls[c].state = "pending" }

C35_SettledOnce ==
  /\ [](DOMAIN pendingRequests = { calls[c].id : c \in Unsettled })
  /\ [][ \A c \in DOMAIN calls :
           calls[c].state # "pending" => calls'[c] = calls[c] ]_vars


(***************************************************************************)
(* C36: a queued request gets at most one terminal answer. approveRequest  *)
(* and rejectRequest, of the service and of the hook, and the later steps  *)
(* of an approval, called for an id that is not (or no longer) pending,    *)
(* send no message and leave the pending queue, the registry and its       *)
(* stored copy as they are; and a step that answers a pending id sends one *)
(* message for it and takes the id out of the queue.                       *)
(***************************************************************************)
C36_OneTerminalAnswer ==
  LET results == { Success }
                   \cup { Identity(a) : a \in Accounts }
                   \cup { Signature(a) : a \in Accounts }
                   \cup { SentTx(a) : a \in Accounts }
                   \cup { BroadcastFailed(a) : a \in Accounts }
      decisions(id) ==
        ApprovalResults(id)
          \cup { hookRejectRequest(id, reason) : reason \in Reasons }
          \cup { approveRequest(id, result) : result \in results }
          \cup { rejectRequest(id, reason) : reason \in Reasons } IN
  /\ \A id \in Ids \ DOMAIN pendingApprovals : \A r \in decisions(id) :
       /\ r.out = {}
       /\ r.pending = pendingApprovals
       /\ r.apps = connectedApps
       /\ r.storage = storage
  /\ \A id \in DOMAIN pendingApprovals : \A r \in decisions(id) :
       (\E m \in r.out : m.id = id) =>
         /\ Cardinality({ m \in r.out : m.id = id }) = 1
         /\ id \notin DOMAIN r.pending

\* a request was rejected while its approval waits for the signing call,
\* which will call approveRequest for the id that is answered already
C36_Witness ==
  /\ isRunning
  /\ \E id \in DOMAIN approvals \ DOMAIN pendingApprovals :
       approvals[id].stage = "signing"


(***************************************************************************)
(* C37: a connect() whose request is rejected (ERROR from the wallet, the  *)
(* timeout, destroy(), or no channel) leaves _isConnected, _address and    *)
(* _publicKey as they were; and _isConnected turns true only in the step   *)
(* that handles a RESPONSE with the id of a pending connect request.       *)
(***************************************************************************)
C37_FailedConnectChangesNothing ==
  [][ /\ \A c \in DOMAIN calls :
           ( /\ calls[c].api = "connect" /\ calls[c].state = "pending"
             /\ calls'[c].state = "rejected"
             \* a disconnect() settled by the same destroy() clears the state
             /\ \A d \in DOMAIN calls :
                  ~( /\ calls[d].api = "disconnect"
                     /\ calls[d].state = "pending"
                     /\ calls'[d].state # "pending" ) )
             => UNCHANGED << _isConnected, _address, _publicKey >>
      /\ ~dappChannel /\ Request("connect")
           => UNCHANGED << _isConnected, _address, _publicKey >>
      /\ ~_isConnected /\ _isConnected'
           => \E c \in DOMAIN calls, payload \in WalletPayloads :
                /\ calls[c].api = "connect" /\ calls[c].state = "pending"
                /\ handleResponse(Message(calls[c].id, RESPONSE, payload))
    ]_vars

\* a connected provider with a cached address whose later connect() failed
C37_Witness ==
  /\ _isConnected /\ _address # NoAccount
  /\ \E c \in DOMAIN calls :
       calls[c].api = "connect" /\ calls[c].state = "rejected"


(***************************************************************************)
(* C38: a provider that is not connected holds no cached address and no    *)
(* cached public key, so its getAddress() and getPublicKey() never answer  *)
(* from the cache.                                                         *)
(***************************************************************************)
C38_NoCacheWhenDisconnected ==
  ~_isConnected => _address = NoAccount /\ _publicKey = NoAccount


(***************************************************************************)
(* C39: destroy() rejects every call that is pending with 'Provider        *)
(* destroyed' (a pending discover resolves false), empties pendingRequests *)
(* and closes the channels. After it a method that reaches sendRequest is  *)
(* rejected at once with 'BroadcastChannel not available' and registers    *)
(* nothing, discover() resolves false at once, a message changes nothing   *)
(* and a second destroy() changes nothing.                                 *)
(***************************************************************************)
C39_Destroy ==
  [][ /\ destroy =>
           /\ \A c \in DOMAIN calls :
                calls[c].state = "pending" =>
                  IF calls[c].api = DISCOVER
                    THEN calls'[c].state = "resolved" /\ calls'[c].val = Bool(FALSE)
                    ELSE /\ calls'[c].state = "rejected"
                         /\ calls'[c].val = ErrorText("Provider destroyed")
           /\ pendingRequests' = << >>
           /\ ~dappChannel'
      /\ ~dappChannel =>
           /\ \A api \in ApisCalled :
                ( /\ Request(api)
                  /\ ~(api = "getAddress" /\ _address # NoAccount) )
                  => /\ calls'[Len(calls')]
                          = Call(api, NoId, "rejected",
                                 ErrorText("BroadcastChannel not available"))
                     /\ UNCHANGED << pendingRequests, timers >>
           /\ Discover
                => /\ calls'[Len(calls')]
                        = Call(DISCOVER, NoId, "resolved", Bool(FALSE))
                   /\ UNCHANGED << pendingRequests, timers >>
           /\ destroy => UNCHANGED vars
           /\ \A id \in WalletIds, type \in { RESPONSE, ERROR, PONG },
                 payload \in WalletPayloads :
                handleResponse(Message(id, type, payload)) => UNCHANGED vars
    ]_vars

====
